---- MODULE Spec2Model ----
(***************************************************************************)
(* A model of data/generate_coco_data.py: the CoCoDataGenrator batch       *)
(* generator (load_data, next_batch, _on_epoch_end) and the sample         *)
(* pipeline it drives (_data_generation, _resize_mask, _resize_im).        *)
(*                                                                         *)
(* numpy arrays are represented by what the code reads from them:          *)
(*   - images, mask stacks and keypoint arrays by their shape (a tuple),   *)
(*     the Python empty list [] by the shape <<0>> that np.shape gives it; *)
(*   - label and box arrays by their contents (a sequence), [] by << >>.   *)
(* A Python exception that leaves next_batch is the state pc = "raised":   *)
(* the repository has no handler, so the exception ends the program.       *)
(***************************************************************************)
EXTENDS Integers, Sequences, FiniteSets, TLC

\* ---------------------------------------------------------------- bounds
MaxIds == 3
MaxBatch == 2
MaxInst == 2
MaxSide == 4

\* how many matching annotations an eligible image can have
AnnCounts == {1, 2}
\* the target shape of the batch generator's runs
BatchShapes == {<<4, 4, 3>>}

\* target shapes (height, width, channels) the generator is configured with
TargetShapes == {<<4, 4, 3>>, <<4, 2, 3>>, <<2, 4, 3>>}
\* channel counts of a decoded colour image
Channels == {3, 4}
\* annotation boxes of the store, COCO order [xmin, ymin, w, h]
StoreBoxes == {<<0, 0, 1, 1>>, <<1, 0, 2, 3>>}

VARIABLES
    img_shape, batch_size, max_instances, include_mask, include_keypoint,
    imgToAnns,          \* image key -> number of its annotations whose iscrowd = include_crowd
    img_ids, total_batch_size, current_batch_index,
    pc,                 \* idle | loop | recurse | returned | raised
    batch_img_ids, idx, \* the slice of this attempt, and the loop's position in it
    batch_imgs, batch_bboxes, batch_labels, batch_masks, batch_keypoints,
    output,
    picked,             \* history: how often each id was sliced since the last reshuffle
    shuffled,           \* history: _on_epoch_end has run at least once
    gen                 \* the last application of a sample-pipeline function

config == <<img_shape, batch_size, max_instances, include_mask, include_keypoint>>
genstate == <<imgToAnns, img_ids, total_batch_size, current_batch_index, pc,
              batch_img_ids, idx, batch_imgs, batch_bboxes, batch_labels,
              batch_masks, batch_keypoints, output, picked, shuffled>>
vars == <<config, genstate, gen>>

\* ---------------------------------------------------------------- helpers
Max2(a, b) == IF a >= b THEN a ELSE b
Min2(a, b) == IF a <= b THEN a ELSE b

SetMin(S) == CHOOSE x \in S : \A y \in S : x <= y
SetMax(S) == CHOOSE x \in S : \A y \in S : x >= y

AllEqual(s) == \A i \in 1..Len(s) : s[i] = s[1]

Shuffles(s) ==
    {t \in [1..Len(s) -> {s[i] : i \in 1..Len(s)}] :
        \A i \in 1..Len(s) : \E j \in 1..Len(s) : t[j] = s[i]}

\* cvRound: round to nearest, ties to even; the argument is num/den >= 0
cvRound(num, den) ==
    LET q == num \div den
        r == num % den
    IN  IF 2 * r < den THEN q
        ELSE IF 2 * r > den THEN q + 1
        ELSE IF q % 2 = 0 THEN q ELSE q + 1

\* float(self.img_shape[0]) / float(size_max), kept as the fraction <<num, den>>
ImScale(size_max) == <<img_shape[1], size_max>>

SameScale(a, b) == a[1] * b[2] = b[1] * a[2]

\* cv2.resize(m, None, None, fx=s, fy=s): the output size is cvRound(side * s)
cv2_resize(h, w, s) == <<cvRound(h * s[1], s[2]), cvRound(w * s[1], s[2])>>

\* blob[0:rh, 0:rw] = value of shape (rh, rw): numpy clips the slice to the blob
\* and then needs the value to broadcast to the clipped slice
FitsBlob(rh, rw) ==
    /\ (rh = Min2(rh, img_shape[1]) \/ rh = 1)
    /\ (rw = Min2(rw, img_shape[2]) \/ rw = 1)

\* ------------------------------------------------------------ _resize_im
\* origin_shape = np.shape(origin_im) = <<h, w, c>>; bboxes = rows [xmin, ymin, xmax, ymax]
ScaleBoxes(bboxes, s) ==
    [i \in 1..Len(bboxes) |-> [j \in 1..4 |-> (bboxes[i][j] * s[1]) \div s[2]]]

_resize_im(origin_shape, bboxes) ==
    LET im_size_max == Max2(origin_shape[1], origin_shape[2])
        im_scale == ImScale(im_size_max)
        rs == cv2_resize(origin_shape[1], origin_shape[2], im_scale)
        base == [status |-> "raise", err |-> "", im_scale |-> im_scale,
                 im_resize_shape |-> <<rs[1], rs[2], origin_shape[3]>>,
                 im_blob |-> << >>, filled |-> << >>, bboxes_resize |-> << >>]
    IN  IF rs[1] = 0 \/ rs[2] = 0
        THEN [base EXCEPT !.err = "cv2.resize"]
        ELSE IF ~(FitsBlob(rs[1], rs[2])
                  /\ (origin_shape[3] = img_shape[3] \/ origin_shape[3] = 1))
        THEN [base EXCEPT !.err = "im_blob"]
        ELSE [base EXCEPT !.status = "ok",
                          !.im_blob = img_shape,
                          !.filled = <<rs[1], rs[2]>>,
                          !.bboxes_resize = ScaleBoxes(bboxes, im_scale)]

\* ---------------------------------------------------------- _resize_mask
\* What cv2.resize and the 0.5 threshold leave of one mask, as the set of the
\* nonzero pixels <<row, col>> of the resized mask of shape (rh, rw).
MaskOutcomes(rh, rw) ==
    IF rh = 0 \/ rw = 0 THEN {{}}
    ELSE {{}, {<<0, 0>>}, {<<rh - 1, rw - 1>>}, {<<0, 0>>, <<rh - 1, rw - 1>>}}

\* lines 135-142: the box of one resized mask m_resize (np.where, then min/max)
DerivedBox(m_resize, h, w) ==
    LET rows == {p[1] : p \in m_resize}
        cols == {p[2] : p \in m_resize}
        xmin == IF SetMin(cols) >= 0 THEN SetMin(cols) ELSE 0
        ymin == IF SetMin(rows) >= 0 THEN SetMin(rows) ELSE 0
        xmax == IF SetMax(cols) <= w THEN SetMax(cols) ELSE w
        ymax == IF SetMax(rows) <= h THEN SetMax(rows) ELSE h
    IN  <<xmin, ymin, xmax, ymax>>

\* np.shape(origin_masks)[0:2] of a list of n masks of shape (h, w) is (n, h)
MaskSizeMax(n, h, w) == Max2(n, h)

\* origin_masks: n masks of shape (h, w); resized[i]: the outcome of lines 131-132
\* for mask i.  The loop raises at the first mask it cannot handle.
_resize_mask(n, h, w, resized) ==
    LET im_scale == ImScale(MaskSizeMax(n, h, w))
        rs == cv2_resize(h, w, im_scale)
        base == [status |-> "raise", err |-> "", im_scale |-> im_scale,
                 m_resize_shape |-> rs, masks_resize |-> << >>, gt_boxes |-> << >>]
    IN  IF rs[1] = 0 \/ rs[2] = 0
        THEN [base EXCEPT !.err = "cv2.resize"]
        ELSE IF resized[1] = {}
        THEN [base EXCEPT !.err = "np.min"]
        ELSE IF ~FitsBlob(rs[1], rs[2])
        THEN [base EXCEPT !.err = "mask_blob"]
        ELSE IF \E i \in 1..n : resized[i] = {}
        THEN [base EXCEPT !.err = "np.min"]
        ELSE [base EXCEPT !.status = "ok",
                          !.masks_resize = <<img_shape[1], img_shape[2], n>>,
                          !.gt_boxes = [i \in 1..n |-> DerivedBox(resized[i], rs[1], rs[2])]]

\* ------------------------------------------------------- _data_generation
\* An annotation of the store: bbox in COCO order [xmin, ymin, w, h], its
\* category and whether it carries a 'keypoints' list (17 triples in COCO).
Anns == [bbox : StoreBoxes, category_id : {1, 2}, keypoints : BOOLEAN]

\* lines 170-176: [xmin, ymin, w, h] -> [xmin, ymin, xmax, ymax]
CornerBox(bbox) == <<bbox[1], bbox[2], bbox[1] + bbox[3], bbox[2] + bbox[4]>>

\* np.shape(np.array(keypoints, dtype=np.int8)) for k collected keypoint lists
KeypointShape(k) == IF k = 0 THEN <<0>> ELSE <<k, 17, 3>>

\* lines 191-197
EmptyOutputs ==
    [img |-> <<0>>, labels |-> << >>, bboxes |-> << >>, masks |-> <<0>>, keypoints |-> <<0>>]

NoCall == [status |-> "none"]

\* anns: the annotations getAnnIds returns for the image; size: the <<h, w>> of
\* the image as annToMask sees it; img: np.shape of what io.imread returned;
\* resized: per annotation the outcome of resizing its mask.
_data_generation(anns, size, img, resized) ==
    LET n == Len(anns)
        raw_bboxes == [i \in 1..n |-> CornerBox(anns[i].bbox)]
        raw_labels == [i \in 1..n |-> anns[i].category_id]
        k == Cardinality({i \in 1..n : include_keypoint /\ anns[i].keypoints})
        mask == IF include_mask THEN _resize_mask(n, size[1], size[2], resized) ELSE NoCall
        bboxes == IF include_mask THEN mask.gt_boxes ELSE raw_bboxes
        o1 == IF include_mask
              THEN [EmptyOutputs EXCEPT !.masks = mask.masks_resize, !.bboxes = mask.gt_boxes]
              ELSE EmptyOutputs
        o2 == IF include_keypoint THEN [o1 EXCEPT !.keypoints = KeypointShape(k)] ELSE o1
        img3 == IF Len(img) = 2 THEN <<img[1], img[2], 3>> ELSE img
        im == IF Len(img) < 2 THEN NoCall ELSE _resize_im(img3, bboxes)
    IN  IF mask.status = "raise"
        THEN [status |-> "raise", err |-> mask.err, outputs |-> EmptyOutputs,
              mask |-> mask, im |-> NoCall]
        ELSE IF Len(img) < 2
        THEN [status |-> "ok", err |-> "", outputs |-> o2, mask |-> mask, im |-> NoCall]
        ELSE IF im.status = "raise"
        THEN [status |-> "raise", err |-> im.err, outputs |-> EmptyOutputs,
              mask |-> mask, im |-> im]
        ELSE [status |-> "ok", err |-> "",
              outputs |-> [o2 EXCEPT !.img = im.im_blob,
                                     !.labels = raw_labels,
                                     !.bboxes = im.bboxes_resize],
              mask |-> mask, im |-> im]

\* what io.imread can return for an image of size <<h, w>>: something with
\* fewer than two dimensions, a grayscale image, or a colour image
Decodes(size) ==
    {<<0>>, <<size[1], size[2]>>} \cup {<<size[1], size[2], c>> : c \in Channels}

Sizes == (1..MaxSide) \X (1..MaxSide)

\* -------------------------------------------------------------- load_data
\* lines 32-41: the keys of imgToAnns, in the store's order, that keep at least
\* one annotation after the iscrowd filter
load_data(store) == SelectSeq([k \in 1..MaxIds |-> k], LAMBDA k : store[k] > 0)

\* the stores, up to a renaming of the image keys: keys are listed by their
\* number of matching annotations
Stores ==
    {f \in [1..MaxIds -> {0} \cup AnnCounts] :
        \A k \in 1..(MaxIds - 1) : f[k] <= f[k + 1]}

\* a variant of line 40 that counts the trailing partial batch
TotalBatchSize_Ceil(n, bs) == (n + bs - 1) \div bs

TotalBatchSize(n, bs) == n \div bs

NoOutput == [imgs |-> << >>, bboxes |-> << >>, labels |-> << >>, masks |-> << >>,
             keypoints |-> << >>]

Init ==
    /\ img_shape \in BatchShapes
    /\ batch_size \in 1..MaxBatch
    /\ max_instances \in 1..MaxInst
    /\ include_mask \in BOOLEAN
    /\ include_keypoint \in BOOLEAN
    /\ imgToAnns \in Stores
    /\ img_ids = load_data(imgToAnns)
    /\ total_batch_size = TotalBatchSize(Len(img_ids), batch_size)
    /\ current_batch_index = 0
    /\ pc = "idle"
    /\ batch_img_ids = << >>
    /\ idx = 1
    /\ batch_imgs = << >>
    /\ batch_bboxes = << >>
    /\ batch_labels = << >>
    /\ batch_masks = << >>
    /\ batch_keypoints = << >>
    /\ output = NoOutput
    /\ picked = [k \in 1..MaxIds |-> 0]
    /\ shuffled = FALSE
    /\ gen = NoCall

\* ------------------------------------------------------------- next_batch
\* line 44
EpochEnded(index, total) == index >= total

\* a variant of lines 48-49 whose slice ends one id late
BatchSlice_OneMore(ids, index, bs) ==
    SubSeq(ids, Min2(index * bs, Len(ids)) + 1, Min2((index + 1) * bs + 1, Len(ids)))

\* lines 48-49: ids[index * bs : (index + 1) * bs]; Python clips a slice to the list
BatchSlice(ids, index, bs) ==
    SubSeq(ids, Min2(index * bs, Len(ids)) + 1, Min2((index + 1) * bs, Len(ids)))

\* lines 44-54: the entry of a call of next_batch, the caller's or a recursive one
NextBatch ==
    /\ pc \in {"idle", "returned", "recurse"}
    /\ LET rollover == EpochEnded(current_batch_index, total_batch_size)
           index == IF rollover THEN 0 ELSE current_batch_index
       IN  \E ids \in (IF rollover THEN Shuffles(img_ids) ELSE {img_ids}) :
             LET slice == BatchSlice(ids, index, batch_size)
                 since == IF rollover THEN [k \in 1..MaxIds |-> 0] ELSE picked
             IN  /\ img_ids' = ids
                 /\ current_batch_index' = index
                 /\ shuffled' = (shuffled \/ rollover)
                 /\ batch_img_ids' = slice
                 /\ picked' = [k \in 1..MaxIds |->
                                 IF \E i \in 1..Len(slice) : slice[i] = k
                                 THEN Min2(since[k] + 1, 2) ELSE since[k]]
    /\ idx' = 1
    /\ batch_imgs' = << >>
    /\ batch_bboxes' = << >>
    /\ batch_labels' = << >>
    /\ batch_masks' = << >>
    /\ batch_keypoints' = << >>
    /\ output' = NoOutput
    /\ pc' = "loop"
    /\ UNCHANGED <<config, imgToAnns, total_batch_size, gen>>

\* line 58: len(np.shape(data['img'])) > 0
Retained(data) == Len(data.img) > 0

\* lines 61-66: the shape of the box array appended for data; np.pad with two
\* axis pairs raises on the one-dimensional []
PadBoxes(data) ==
    IF Len(data.labels) > max_instances
    THEN [status |-> "ok", shape |-> <<Min2(Len(data.bboxes), max_instances), 4>>]
    ELSE IF data.bboxes = << >>
    THEN [status |-> "raise", shape |-> << >>]
    ELSE [status |-> "ok",
          shape |-> <<Len(data.bboxes) + (max_instances - Len(data.labels)), 4>>]

\* lines 61-67: the shape of the label array appended for data
PadLabels(data) ==
    IF Len(data.labels) > max_instances
    THEN <<Min2(Len(data.labels), max_instances)>>
    ELSE <<Len(data.labels) + (max_instances - Len(data.labels))>>

\* what the store and the network hand to one _data_generation call of the loop:
\* the image's n annotations (alike within one image), its size, what io.imread
\* returns for it, and what resizing leaves of its masks
BatchAnns == [bbox : {<<0, 0, 1, 1>>}, category_id : {1}, keypoints : BOOLEAN]
BatchSizes == {<<2, 2>>, <<2, 4>>, <<4, 2>>}
ResizeOutcomes(n, size) ==
    IF include_mask
    THEN LET rs == cv2_resize(size[1], size[2], ImScale(MaskSizeMax(n, size[1], size[2])))
         IN  [1..n -> MaskOutcomes(rs[1], rs[2])]
    ELSE {[i \in 1..n |-> {}]}

\* line 57 for an image with n annotations: every result the call can have,
\* as <<status, outputs>> with labels and boxes cut down to what the loop reads
LoopData(n) ==
    UNION {UNION {{LET r == _data_generation([i \in 1..n |-> a], size, img, resized)
                   IN  <<r.status, r.outputs>> :
                   resized \in ResizeOutcomes(n, size)} :
                  img \in Decodes(size)} :
           a \in BatchAnns, size \in BatchSizes}

\* lines 59-73: data is appended; np.pad (line 66) may raise after line 59 ran
Appended(data) ==
    LET boxes == PadBoxes(data)
    IN  /\ batch_imgs' = Append(batch_imgs, data.img)
        /\ IF boxes.status = "raise"
           THEN /\ pc' = "raised"
                /\ UNCHANGED <<idx, batch_bboxes, batch_labels, batch_masks,
                               batch_keypoints>>
           ELSE /\ pc' = "loop"
                /\ idx' = idx + 1
                /\ batch_bboxes' = Append(batch_bboxes, boxes.shape)
                /\ batch_labels' = Append(batch_labels, PadLabels(data))
                /\ batch_masks' = IF include_mask THEN Append(batch_masks, data.masks)
                                                  ELSE batch_masks
                /\ batch_keypoints' = IF include_keypoint
                                      THEN Append(batch_keypoints, data.keypoints)
                                      ELSE batch_keypoints

\* lines 55-73: one iteration of the loop over the slice
LoopBody ==
    /\ pc = "loop"
    /\ idx <= Len(batch_img_ids)
    /\ \E r \in LoopData(imgToAnns[batch_img_ids[idx]]) :
         IF r[1] = "raise"
         THEN /\ pc' = "raised"
              /\ UNCHANGED <<idx, batch_imgs, batch_bboxes, batch_labels,
                             batch_masks, batch_keypoints>>
         ELSE IF Retained(r[2])
         THEN Appended(r[2])
         ELSE /\ pc' = "loop"
              /\ idx' = idx + 1
              /\ UNCHANGED <<batch_imgs, batch_bboxes, batch_labels,
                             batch_masks, batch_keypoints>>
    /\ UNCHANGED <<config, imgToAnns, img_ids, total_batch_size, current_batch_index,
                   batch_img_ids, output, picked, shuffled, gen>>

\* a variant of line 77 that retries only when nothing was retained
UnderFilled_Empty(batch, bs) == Len(batch) = 0

\* line 77
UnderFilled(batch, bs) == Len(batch) < bs

\* np.shape(np.array(batch, dtype=...)): [] gives (0,), equal shapes stack
Stacked(batch) == IF batch = << >> THEN <<0>> ELSE <<Len(batch)>> \o batch[1]

\* lines 75-88: after the loop
Finish ==
    /\ pc = "loop"
    /\ idx > Len(batch_img_ids)
    /\ current_batch_index' = current_batch_index + 1
    /\ IF UnderFilled(batch_imgs, batch_size)
       THEN /\ pc' = "recurse"
            /\ UNCHANGED output
       ELSE IF \A b \in {batch_imgs, batch_bboxes, batch_labels, batch_masks,
                          batch_keypoints} : AllEqual(b)
       THEN /\ pc' = "returned"
            /\ output' = [imgs |-> Stacked(batch_imgs),
                          bboxes |-> Stacked(batch_bboxes),
                          labels |-> Stacked(batch_labels),
                          masks |-> Stacked(batch_masks),
                          keypoints |-> Stacked(batch_keypoints)]
       ELSE /\ pc' = "raised"
            /\ UNCHANGED output
    /\ UNCHANGED <<config, imgToAnns, img_ids, total_batch_size, batch_img_ids, idx,
                   batch_imgs, batch_bboxes, batch_labels, batch_masks, batch_keypoints,
                   picked, shuffled, gen>>

Next == NextBatch \/ LoopBody \/ Finish

Spec == Init /\ [][Next]_vars

\* ------------------------------------------------- the sample pipeline alone
\* The functions of the sample pipeline applied once each to inputs drawn from
\* bounded sets, under every target shape; gen records the call and its result.
ImShapes == {<<sz[1], sz[2], c>> : sz \in Sizes, c \in Channels \cup {1}}
CornerBoxes == {<<0, 0, 1, 1>>, <<1, 0, 3, 3>>}
AnnLists == UNION {[1..n -> Anns] : n \in AnnCounts}
MaskResults(n, size) ==
    LET rs == cv2_resize(size[1], size[2], ImScale(MaskSizeMax(n, size[1], size[2])))
    IN  [1..n -> MaskOutcomes(rs[1], rs[2])]

GeomInit ==
    /\ img_shape \in TargetShapes
    /\ batch_size = 1
    /\ max_instances = 1
    /\ include_mask \in BOOLEAN
    /\ include_keypoint \in BOOLEAN
    /\ imgToAnns = [k \in 1..MaxIds |-> 0]
    /\ img_ids = << >>
    /\ total_batch_size = 0
    /\ current_batch_index = 0
    /\ pc = "idle"
    /\ batch_img_ids = << >>
    /\ idx = 1
    /\ batch_imgs = << >>
    /\ batch_bboxes = << >>
    /\ batch_labels = << >>
    /\ batch_masks = << >>
    /\ batch_keypoints = << >>
    /\ output = NoOutput
    /\ picked = [k \in 1..MaxIds |-> 0]
    /\ shuffled = FALSE
    /\ gen = NoCall

ResizeIm ==
    /\ gen = NoCall
    /\ \E origin_shape \in ImShapes, n \in AnnCounts :
         \E bboxes \in [1..n -> CornerBoxes] :
           gen' = [status |-> "done", op |-> "_resize_im", origin_shape |-> origin_shape,
                   bboxes |-> bboxes, r |-> _resize_im(origin_shape, bboxes)]
    /\ UNCHANGED <<config, genstate>>

ResizeMask ==
    /\ gen = NoCall
    /\ \E n \in AnnCounts, size \in Sizes :
         \E resized \in MaskResults(n, size) :
           gen' = [status |-> "done", op |-> "_resize_mask", n |-> n, size |-> size,
                   resized |-> resized, r |-> _resize_mask(n, size[1], size[2], resized)]
    /\ UNCHANGED <<config, genstate>>

DataGeneration ==
    /\ gen = NoCall
    /\ \E anns \in AnnLists, size \in Sizes :
         \E img \in Decodes(size) :
           \E resized \in (IF include_mask THEN MaskResults(Len(anns), size)
                                           ELSE {[i \in 1..Len(anns) |-> {}]}) :
             gen' = [status |-> "done", op |-> "_data_generation", anns |-> anns,
                     size |-> size, img |-> img,
                     r |-> _data_generation(anns, size, img, resized)]
    /\ UNCHANGED <<config, genstate>>

GeomNext == ResizeIm \/ ResizeMask \/ DataGeneration

GeomSpec == GeomInit /\ [][GeomNext]_vars

\* ------------------------------------------------------------------ claims
\* between two attempts of next_batch: before a call, after a return, or at the
\* recursive call of line 78
Boundary == pc \in {"idle", "returned", "recurse"}

\* C1: every batch next_batch returns has exactly batch_size samples along the
\* leading dimension of imgs, bboxes and labels; an attempt that retained fewer
\* is never returned (it goes on to the recursive call, with nothing returned).
C1_ReturnedBatchIsFull ==
    /\ pc = "returned" =>
          /\ Len(batch_imgs) = batch_size
          /\ output.imgs[1] = batch_size
          /\ output.bboxes[1] = batch_size
          /\ output.labels[1] = batch_size
    /\ pc = "recurse" => (Len(batch_imgs) < batch_size /\ output = NoOutput)

C1_Witness ==
    /\ pc = "returned"
    /\ batch_size > 1
    /\ output.imgs[1] = batch_size
    /\ shuffled

\* C2 (as stated): every box array and every label array appended to a batch
\* has exactly max_instances entries along the instance axis.
C2_AppendedHaveMaxInstances ==
    /\ \A i \in 1..Len(batch_bboxes) : batch_bboxes[i][1] = max_instances
    /\ \A i \in 1..Len(batch_labels) : batch_labels[i][1] = max_instances

\* C3 (as stated): a sample whose 'img' is the empty list (decode failure) leaves
\* nothing in the batch: no entry of batch_imgs is the empty list.
C3_DecodeFailureSkipped ==
    \A i \in 1..Len(batch_imgs) : batch_imgs[i] # <<0>>

\* C4 (as stated): in a returned batch the mask stack of every sample has
\* max_instances instances when masks are included, and the keypoint entry of
\* every sample has max_instances instances when keypoints are included.
C4_UniformInstanceDimension ==
    pc = "returned" =>
        /\ include_mask =>
              output.masks = <<batch_size, img_shape[1], img_shape[2], max_instances>>
        /\ include_keypoint =>
              (Len(output.keypoints) >= 2 /\ output.keypoints[2] = max_instances)

\* C5 (as stated): for every input image shape and every target shape _resize_im
\* succeeds and returns a buffer of exactly the target shape, the resized image
\* at its top-left origin.  (Stated for images that have the target's channels
\* and keep at least one pixel on each side when scaled.)
C5_ResizeImAlwaysTargetShape ==
    (/\ gen.status = "done"
     /\ gen.op = "_resize_im"
     /\ gen.origin_shape[3] = img_shape[3]
     /\ gen.r.im_resize_shape[1] > 0
     /\ gen.r.im_resize_shape[2] > 0) =>
        /\ gen.r.status = "ok"
        /\ gen.r.im_blob = img_shape
        /\ gen.r.filled[1] <= img_shape[1]
        /\ gen.r.filled[2] <= img_shape[2]

\* C6 (as stated): between two consecutive reshuffles every eligible id is
\* selected into a batch slice exactly once.
C6_EveryIdOncePerEpoch ==
    (shuffled /\ Boundary /\ current_batch_index >= total_batch_size) =>
        \A i \in 1..Len(img_ids) : picked[img_ids[i]] = 1

\* C6 (amended): between two consecutive reshuffles every eligible id is selected
\* into a batch slice at most once, and the ids selected are exactly the first
\* floor(n / batch_size) * batch_size of the shuffled order (all n when
\* n < batch_size): the n mod batch_size ids after them are not selected.
C6_PrefixOncePerEpoch ==
    LET n == Len(img_ids)
        covered == IF n < batch_size THEN n ELSE (n \div batch_size) * batch_size
    IN  /\ \A k \in 1..MaxIds : picked[k] <= 1
        /\ (shuffled /\ Boundary /\ current_batch_index >= total_batch_size) =>
              \A i \in 1..n : picked[img_ids[i]] = (IF i <= covered THEN 1 ELSE 0)

C6_Witness ==
    /\ shuffled
    /\ pc = "returned"
    /\ current_batch_index >= total_batch_size
    /\ Len(img_ids) > batch_size
    /\ Len(img_ids) % batch_size # 0
    /\ \E i \in 1..Len(img_ids) : picked[img_ids[i]] = 0

\* C7 (as stated): with masks included and a decoded image, the 'bboxes' that
\* _data_generation returns are exactly the boxes _resize_mask derived.
C7_MaskBoxesReturnedUnchanged ==
    (/\ gen.status = "done"
     /\ gen.op = "_data_generation"
     /\ include_mask
     /\ Len(gen.img) >= 2
     /\ gen.r.status = "ok") =>
        gen.r.outputs.bboxes = gen.r.mask.gt_boxes

\* C8 (as stated): the scale _resize_mask applies to an image's masks equals the
\* scale _resize_im applies to the image, target long side / max(height, width).
C8_MaskScaleIsImageScale ==
    (/\ gen.status = "done"
     /\ gen.op = "_data_generation"
     /\ gen.r.mask.status # "none"
     /\ gen.r.im.status # "none") =>
        /\ SameScale(gen.r.mask.im_scale, gen.r.im.im_scale)
        /\ SameScale(gen.r.mask.im_scale,
                     <<img_shape[1], Max2(gen.size[1], gen.size[2])>>)

\* C9 (as stated): when a mask has no nonzero pixel after resize and threshold,
\* _resize_mask does not fail and gives that instance the box (0, 0, 0, 0).
C9_EmptyMaskGivesZeroBox ==
    (/\ gen.status = "done"
     /\ gen.op = "_resize_mask"
     /\ gen.r.m_resize_shape[1] > 0
     /\ gen.r.m_resize_shape[2] > 0
     /\ FitsBlob(gen.r.m_resize_shape[1], gen.r.m_resize_shape[2])
     /\ \E i \in 1..gen.n : gen.resized[i] = {}) =>
        /\ gen.r.status = "ok"
        /\ \A i \in 1..gen.n :
              gen.resized[i] = {} => gen.r.gt_boxes[i] = <<0, 0, 0, 0>>

\* C10: with fewer eligible ids than batch_size a call never returns: every
\* attempt starts from cursor 0 after a reshuffle, takes a slice of fewer than
\* batch_size ids (all of them) and, once its loop is through, has advanced the
\* cursor to 1 and recurses; with at least batch_size eligible ids every slice
\* taken holds exactly batch_size ids.
C10_ScarceIdsNeverReturn ==
    LET n == Len(img_ids)
    IN  /\ n < batch_size =>
              /\ pc # "returned"
              /\ pc # "idle" =>
                    /\ shuffled
                    /\ Len(batch_img_ids) = n
                    /\ Len(batch_img_ids) < batch_size
              /\ pc \in {"loop", "raised"} => current_batch_index = 0
              /\ pc = "recurse" => current_batch_index = 1
        /\ n >= batch_size =>
              (pc # "idle" => Len(batch_img_ids) = batch_size)

C10_Witness ==
    /\ Len(img_ids) > 0
    /\ Len(img_ids) < batch_size
    /\ pc = "recurse"
    /\ current_batch_index = 1
    /\ Len(batch_imgs) = Len(img_ids)

====
